---- MODULE Spec2Model ----
(***************************************************************************)
(* dirnum: validation and renumbering of sequentially numbered image       *)
(* files.  A file name is a sequence of one-character strings, so that      *)
(* parsing and rendering are computed character by character as the code   *)
(* does.  The state machine follows main(): read the directory, validate,  *)
(* then the phases of ComputeRenames.                                       *)
(***************************************************************************)
EXTENDS Integers, Sequences, FiniteSets, TLC

\* ------------------------------------------------------------------ bounds
MaxFiles == 4
MaxMajor == 3
MaxMinor == 2
\* ValidateFileNames on lists in any order: the length of the list
MaxListed == 3
\* ComputeRenames on any unused list: the number of names, the largest hole
MaxPlanned == 3
MaxHole == 2
\* The name codec on any descriptor: the widest digit count asked for
MaxDigits == 3

\* ------------------------------------------------------- program constants
NoMinorVersion == -99
noMinor == -99
\* The planner's name for the same marker ("no minor version").
NoVersion == NoMinorVersion

\* -------------------------------------------------------------- characters
DigitChars == <<"0", "1", "2", "3", "4", "5", "6", "7", "8", "9">>
UpperChars == <<"A", "B", "C", "D", "E", "F", "G", "H", "I", "J", "K", "L", "M",
                "N", "O", "P", "Q", "R", "S", "T", "U", "V", "W", "X", "Y", "Z">>
LowerChars == <<"a", "b", "c", "d", "e", "f", "g", "h", "i", "j", "k", "l", "m",
                "n", "o", "p", "q", "r", "s", "t", "u", "v", "w", "x", "y", "z">>

Range(s) == {s[i] : i \in 1..Len(s)}

IsDigit(c) == c \in Range(DigitChars)
IsLetter(c) == c \in Range(UpperChars) \cup Range(LowerChars)
IsAlnum(c) == IsLetter(c) \/ IsDigit(c)

\* Byte order of the characters that occur in file names (ASCII).
ByteOrder == <<"-", ".">> \o DigitChars \o UpperChars \o <<"_">> \o LowerChars
Byte(c) == CHOOSE i \in 1..Len(ByteOrder) : ByteOrder[i] = c

\* String comparison a < b, byte by byte: ioutil.ReadDir returns the entries
\* sorted by file name.
RECURSIVE StrLess(_, _)
StrLess(a, b) ==
    IF b = <<>> THEN FALSE
    ELSE IF a = <<>> THEN TRUE
    ELSE IF Head(a) = Head(b) THEN StrLess(Tail(a), Tail(b))
    ELSE Byte(Head(a)) < Byte(Head(b))

\* ------------------------------------------------------------------- codec
DigitValue(c) == (CHOOSE i \in 1..10 : DigitChars[i] = c) - 1

\* strconv.Itoa for n >= 0
RECURSIVE Itoa(_)
Itoa(n) == IF n < 10 THEN <<DigitChars[n + 1]>>
           ELSE Itoa(n \div 10) \o <<DigitChars[(n % 10) + 1]>>

\* strconv.Atoi on a non-empty string of digits
RECURSIVE Atoi(_)
Atoi(s) == IF s = <<>> THEN 0
           ELSE 10 * Atoi(SubSeq(s, 1, Len(s) - 1)) + DigitValue(s[Len(s)])

RECURSIVE prependZeroes(_, _)
prependZeroes(n, l) == IF Len(n) < l THEN prependZeroes(<<"0">> \o n, l) ELSE n

\* Mutant: the tag is not written.
StringNoTag(f) ==
    prependZeroes(Itoa(f.major), f.majorDigits)
    \o (IF f.minor # NoMinorVersion
        THEN <<"-">> \o prependZeroes(Itoa(f.minor), f.minorDigits)
        ELSE <<>>)
    \o <<".">>
    \o f.extension

\* FileNamePieces.String
String(f) ==
    prependZeroes(Itoa(f.major), f.majorDigits)
    \o (IF f.minor # NoMinorVersion
        THEN <<"-">> \o prependZeroes(Itoa(f.minor), f.minorDigits)
        ELSE <<>>)
    \o f.descriptor
    \o <<".">>
    \o f.extension

Extensions == {<<"j", "p", "g">>, <<"p", "n", "g">>, <<"g", "i", "f">>}

\* Length of the longest prefix of s, from position p on, whose characters
\* all satisfy the class (a greedy [class]* of the regular expression).
RECURSIVE DigitRun(_, _)
DigitRun(s, p) == IF p <= Len(s) /\ IsDigit(s[p]) THEN 1 + DigitRun(s, p + 1) ELSE 0
RECURSIVE AlnumRun(_, _)
AlnumRun(s, p) == IF p <= Len(s) /\ IsAlnum(s[p]) THEN 1 + AlnumRun(s, p + 1) ELSE 0

NoMatch == <<>>

\* fileRegEx.FindStringSubmatch:
\*   ^([0-9]+)(-[0-9]+)?(-[A-Za-z][A-Za-z0-9]+)?\.(jpg|png|gif)$
\* The result is <<group 1, group 2, group 3, group 4>>, or NoMatch.  Every
\* repetition is greedy and no shorter repetition can lead to a match, since
\* each group must be followed by "-" or ".".
\* (-[0-9]+)? at position p: the length it matches
MinorLen(s, p) ==
    IF p + 1 <= Len(s) /\ s[p] = "-" /\ IsDigit(s[p + 1])
    THEN 1 + DigitRun(s, p + 1)
    ELSE 0

\* (-[A-Za-z][A-Za-z0-9]+)? at position p: the length it matches
TagLen(s, p) ==
    IF p + 2 <= Len(s) /\ s[p] = "-" /\ IsLetter(s[p + 1]) /\ IsAlnum(s[p + 2])
    THEN 2 + AlnumRun(s, p + 2)
    ELSE 0

\* \.(jpg|png|gif)$ after groups of lengths d1, d2, d3
Submatch(s, d1, d2, d3) ==
    IF /\ d1 >= 1
       /\ d1 + d2 + d3 + 1 <= Len(s)
       /\ s[d1 + d2 + d3 + 1] = "."
       /\ SubSeq(s, d1 + d2 + d3 + 2, Len(s)) \in Extensions
    THEN <<SubSeq(s, 1, d1),
           SubSeq(s, d1 + 1, d1 + d2),
           SubSeq(s, d1 + d2 + 1, d1 + d2 + d3),
           SubSeq(s, d1 + d2 + d3 + 2, Len(s))>>
    ELSE NoMatch

MatchTag(s, d1, d2) == Submatch(s, d1, d2, TagLen(s, d1 + d2 + 1))
MatchMinor(s, d1) == MatchTag(s, d1, MinorLen(s, d1 + 1))
FindStringSubmatch(s) == MatchMinor(s, DigitRun(s, 1))

ParseError == [error |-> TRUE]

\* Mutant: the widths are those of the text read.
NewPiecesFieldWidth(f, tokens, major, minor) ==
    [error |-> FALSE,
     major |-> major,
     minor |-> minor,
     majorDigits |-> Len(tokens[1]),
     minorDigits |-> IF minor # NoMinorVersion THEN Len(tokens[2]) - 1 ELSE 0,
     descriptor |-> tokens[3],
     extension |-> tokens[4],
     originalName |-> f]

\* The descriptor ParseFileName builds from the numbers it has read.
NewPieces(f, tokens, major, minor) ==
    [error |-> FALSE,
     major |-> major,
     minor |-> minor,
     majorDigits |-> Len(Itoa(major)),
     minorDigits |-> IF minor # NoMinorVersion THEN Len(Itoa(minor)) ELSE 0,
     descriptor |-> tokens[3],
     extension |-> tokens[4],
     originalName |-> f]

\* ParseFileName after the match.  strconv.Atoi fails only on a number that
\* does not fit an int, which no name of the model holds.
PiecesOf(f, tokens) ==
    IF tokens = NoMatch THEN ParseError
    ELSE NewPieces(f, tokens, Atoi(tokens[1]),
                   IF Len(tokens[2]) > 0 THEN Atoi(Tail(tokens[2]))
                   ELSE NoMinorVersion)

ParseFileName(f) == PiecesOf(f, FindStringSubmatch(f))

\* PFnpSlice.Less
Less(first, second) ==
    IF first.major < second.major THEN TRUE
    ELSE IF first.major > second.major THEN FALSE
    ELSE first.minor < second.minor

\* sort.Sort(files): some ordering of the descriptors in which no element is
\* Less than an earlier one (sort.Sort is not stable: equal elements may end
\* in any order).
RECURSIVE SortedOrders(_)
SortedOrders(S) ==
    IF S = {} THEN {<<>>}
    ELSE UNION {{<<x>> \o t : t \in SortedOrders(S \ {x})} :
                x \in {m \in S : \A y \in S : ~Less(y, m)}}

\* sort.Ints / sort.Strings over a set of distinct values
RECURSIVE SortInts(_)
SortInts(S) ==
    IF S = {} THEN <<>>
    ELSE LET m == CHOOSE x \in S : \A y \in S : x <= y
         IN  <<m>> \o SortInts(S \ {m})

\* sort.Ints on a slice (which may hold a number more than once)
RECURSIVE Insert(_, _)
Insert(s, n) ==
    IF s = <<>> THEN <<n>>
    ELSE IF n <= Head(s) THEN <<n>> \o s
    ELSE <<Head(s)>> \o Insert(Tail(s), n)

RECURSIVE SortSlice(_)
SortSlice(s) == IF s = <<>> THEN <<>> ELSE Insert(SortSlice(Tail(s)), Head(s))

RECURSIVE SortStrings(_)
SortStrings(S) ==
    IF S = {} THEN <<>>
    ELSE LET m == CHOOSE x \in S : \A y \in S \ {x} : StrLess(x, y)
         IN  <<m>> \o SortStrings(S \ {m})

max(i, j) == IF i > j THEN i ELSE j

\* ------------------------------------------------------------ the directory
Jpg == <<"j", "p", "g">>
Png == <<"p", "n", "g">>
Gif == <<"g", "i", "f">>
Foo == <<"-", "F", "o", "o">>
ThumbsDb == <<"T", "h", "u", "m", "b", "s", ".", "d", "b">>

\* Names with a natural-width major number and no or a natural-width minor.
PlainNames ==
    {Itoa(M) \o (IF m = NoMinorVersion THEN <<>> ELSE <<"-">> \o Itoa(m))
             \o <<".">> \o Jpg :
        M \in 0..MaxMajor, m \in {NoMinorVersion} \cup 0..MaxMinor}

\* Two-digit and zero-padded numbers, tags, other extensions.
SpecialNames ==
    {<<"1", "0", ".", "j", "p", "g">>,
     <<"0", "1", ".", "p", "n", "g">>,
     <<"1", "-", "1", "0", ".", "j", "p", "g">>,
     <<"2">> \o Foo \o <<".">> \o Png,
     <<"0", "-", "1">> \o Foo \o <<".">> \o Gif}

\* Names outside the grammar, and the thumbnail cache.
MalformedNames ==
    {<<"f", "o", "o", ".", "j", "p", "g">>,
     <<"0", "-", "0", "-", "0", "f", "f", ".", "j", "p", "g">>}

Universe == PlainNames \cup SpecialNames \cup MalformedNames \cup {ThumbsDb}

RECURSIVE SubsetsUpTo(_, _)
SubsetsUpTo(S, k) ==
    IF k = 0 THEN {{}}
    ELSE LET smaller == SubsetsUpTo(S, k - 1)
         IN  smaller \cup {s \cup {x} : s \in smaller, x \in S}

Directories == SubsetsUpTo(Universe, MaxFiles)

\* ---------------------------------------------------------------- validator
\* One error message: its class and the values formatted into it.
Msg(kind, a, b, f1, f2) == [kind |-> kind, a |-> a, b |-> b, f1 |-> f1, f2 |-> f2]

NoErrors == <<>>

\* ValidationErrors.add
ErrAdd(errs, filename, err) ==
    IF filename \in DOMAIN errs
    THEN [errs EXCEPT ![filename] = Append(@, err)]
    ELSE errs @@ (filename :> <<err>>)

NothingSeen == <<>>

\* seenMajorMinor.add, when the slot is free
SeenAdd(s, major, minor, file) ==
    IF major \in DOMAIN s
    THEN [s EXCEPT ![major] = @ @@ (minor :> file)]
    ELSE s @@ (major :> (minor :> file))

SeenHas(s, major, minor) == major \in DOMAIN s /\ minor \in DOMAIN s[major]

\* The collision message for file f, whose slot oldFile holds.
CollisionMsg(name, oldFile, f) ==
    IF name.minor = noMinor
    THEN Msg("Overridden Major Number", name.major, -1, oldFile, f)
    ELSE Msg("Duplicate Major/Minor", name.major, name.minor, oldFile, f)

\* Mutant: only the later file gets the collision error.
AddOnce(errs, f, oldFile, errText) == ErrAdd(errs, f, errText)

AddTwice(errs, f, oldFile, errText) == ErrAdd(ErrAdd(errs, f, errText), oldFile, errText)

\* Mutant: a name that does not parse is skipped without an error.
ScanErrorsQuiet(errs, seen, f, name) ==
    IF name.error THEN errs
    ELSE IF SeenHas(seen, name.major, name.minor)
    THEN AddTwice(errs, f, seen[name.major][name.minor],
                  CollisionMsg(name, seen[name.major][name.minor], f))
    ELSE errs

\* One round of the first loop of ValidateFileNames, for the name f parsed
\* as name: the errors and the seen index after it.
ScanErrors(errs, seen, f, name) ==
    IF name.error THEN ErrAdd(errs, f, Msg("Bad filename", -1, -1, f, <<>>))
    ELSE IF SeenHas(seen, name.major, name.minor)
    THEN AddTwice(errs, f, seen[name.major][name.minor],
                  CollisionMsg(name, seen[name.major][name.minor], f))
    ELSE errs

ScanSeen(seen, f, name) ==
    IF name.error \/ SeenHas(seen, name.major, name.minor) THEN seen
    ELSE SeenAdd(seen, name.major, name.minor, f)

ScanStep(acc, f, name) ==
    [errors |-> ScanErrors(acc.errors, acc.seen, f, name),
     seen |-> ScanSeen(acc.seen, f, name)]

\* The first loop of ValidateFileNames over names[1..i]
RECURSIVE ScanNames(_, _)
ScanNames(names, i) ==
    IF i = 0 THEN [errors |-> NoErrors, seen |-> NothingSeen]
    ELSE ScanStep(ScanNames(names, i - 1), names[i], ParseFileName(names[i]))

\* validateMajor(nums), nums ascending: the numbers that do not follow their
\* predecessor (each with that predecessor), and the numbers skipped.
\* Mutant: the scan starts with prev = 0 instead of -1.
PrevOfZero(nums, i) == IF i = 1 THEN 0 ELSE nums[i - 1]

PrevOf(nums, i) == IF i = 1 THEN -1 ELSE nums[i - 1]

\* Mutant: the first number of the list is never a jump.
JumpsAfterFirst(nums) == {j \in 2..Len(nums) : nums[j] # PrevOf(nums, j) + 1}

Jumps(nums) == {j \in 1..Len(nums) : nums[j] # PrevOf(nums, j) + 1}

IndexOf(nums, n) == CHOOSE j \in 1..Len(nums) : nums[j] = n

\* Mutant: only the first number of a gap is recorded.
IntervalOne(start, n) == IF start >= n THEN <<>> ELSE <<start>>

RECURSIVE Interval(_, _)
Interval(start, n) == IF start >= n THEN <<>> ELSE <<start>> \o Interval(start + 1, n)

RECURSIVE UnusedFrom(_, _)
UnusedFrom(nums, i) ==
    IF i > Len(nums) THEN <<>>
    ELSE (IF nums[i] # PrevOf(nums, i) + 1
          THEN Interval(max(PrevOf(nums, i) + 1, 0), nums[i])
          ELSE <<>>)
         \o UnusedFrom(nums, i + 1)

validateMajor(nums) ==
    [errors |-> [n \in {nums[i] : i \in Jumps(nums)} |->
                    Msg("Numbering jumped", PrevOf(nums, IndexOf(nums, n)), n,
                        <<>>, <<>>)],
     unused |-> UnusedFrom(nums, 1)]

\* Mutant: every message says "jumped".
MinorMsgJumped(prev, n) == Msg("Minor numbering jumped", prev, n, <<>>, <<>>)

MinorMsg(prev, n) ==
    IF prev = -1 \/ prev = noMinor
    THEN Msg("Minor version numbering must start with 0", -1, -1, <<>>, <<>>)
    ELSE Msg("Minor numbering jumped", prev, n, <<>>, <<>>)

\* Mutant: a single number is checked like a list of several.
validateMinorAsList(nums) ==
    [n \in {nums[i] : i \in Jumps(nums)} |->
        MinorMsg(PrevOf(nums, IndexOf(nums, n)), n)]

\* validateMinor(nums), nums ascending
validateMinor(nums) ==
    IF Len(nums) = 1
    THEN IF nums[1] # noMinor
         THEN (nums[1] :> Msg("Minor version on single file", nums[1], -1, <<>>, <<>>))
         ELSE <<>>
    ELSE [n \in {nums[i] : i \in Jumps(nums)} |->
            MinorMsg(PrevOf(nums, IndexOf(nums, n)), n)]

SomeOf(S) == CHOOSE x \in S : TRUE

\* errors.add(f, fmt.Sprintf(e, f)) for every key of msgs, f being fileOf[key];
\* no two keys name the same file, so the order of the additions is immaterial.
RECURSIVE AddAll(_, _, _, _)
AddAll(errs, keys, msgs, fileOf) ==
    IF keys = {} THEN errs
    ELSE AddAll(ErrAdd(errs, fileOf[SomeOf(keys)],
                       [msgs[SomeOf(keys)] EXCEPT !.f1 = fileOf[SomeOf(keys)]]),
                keys \ {SomeOf(keys)}, msgs, fileOf)

AddMinor(errs, minorErrors, fileOf) ==
    AddAll(errs, DOMAIN minorErrors, minorErrors, fileOf)

\* The minor loop of ValidateFileNames over the major numbers in majs.
RECURSIVE MinorErrors(_, _, _)
MinorErrors(errs, seen, majs) ==
    IF majs = {} THEN errs
    ELSE MinorErrors(AddMinor(errs, validateMinor(SortInts(DOMAIN seen[SomeOf(majs)])),
                              seen[SomeOf(majs)]),
                     seen, majs \ {SomeOf(majs)})

FilesOf(seen, n) == {seen[n][m] : m \in DOMAIN seen[n]}

\* The files that may stand for a major number in the gap report: ranging
\* over the map seen[n] yields its entries in an unspecified order, and the
\* loop keeps the first.
Representatives(seen, majs) ==
    {r \in [majs -> UNION {FilesOf(seen, n) : n \in majs}] :
        \A n \in majs : r[n] \in FilesOf(seen, n)}

\* ValidateFileNames after its first loop
Report(scan, vm, rep) ==
    [errors |-> MinorErrors(AddAll(scan.errors, DOMAIN vm.errors, vm.errors, rep),
                            scan.seen, DOMAIN scan.seen),
     unused |-> SortSlice(vm.unused)]

ReportOn(scan, rep) == Report(scan, validateMajor(SortInts(DOMAIN scan.seen)), rep)

\* ValidateFileNames, rep being the representative file of each major number
\* that follows a gap.
ValidateFileNames(names, rep) == ReportOn(ScanNames(names, Len(names)), rep)

\* The representatives ValidateFileNames may pick for names
GapMajors(seen) == DOMAIN validateMajor(SortInts(DOMAIN seen)).errors
RepsOf(seen) == Representatives(seen, GapMajors(seen))
RepresentativesFor(names) == RepsOf(ScanNames(names, Len(names)).seen)

\* ValidationErrors.String: the lines printed, the files in the order of
\* their names, each with its errors in the order they were added.
FileLines(errs, f) == [e \in 1..Len(errs[f]) |-> [file |-> f, error |-> errs[f][e]]]

RECURSIVE LinesOf(_, _, _)
LinesOf(errs, filesWithErrors, i) ==
    IF i > Len(filesWithErrors) THEN <<>>
    ELSE FileLines(errs, filesWithErrors[i]) \o LinesOf(errs, filesWithErrors, i + 1)

ErrorsString(errs) ==
    IF DOMAIN errs = {} THEN <<"No errors found">>
    ELSE LinesOf(errs, SortStrings(DOMAIN errs), 1)

\* ------------------------------------------------------------------ planner
\* files[idx] with Go's indices, 0 .. len(files)-1
At(files, idx) == files[idx + 1]

\* parseFileNames, before the sort: the descriptors of the names that parse.
Parsed(names) ==
    {p \in {ParseFileName(names[i]) : i \in 1..Len(names)} : ~p.error}

RECURSIVE MaxOf(_)
MaxOf(S) == IF S = {} THEN 0 ELSE max(SomeOf(S), MaxOf(S \ {SomeOf(S)}))

\* Mutant: one minor width for all major numbers.
computeDigitCountsGlobal(files) ==
    [majorDigits |-> MaxOf({files[i].majorDigits : i \in 1..Len(files)}),
     minorDigits |-> [m \in {files[i].major : i \in 1..Len(files)} |->
                        MaxOf({files[i].minorDigits : i \in 1..Len(files)})]]

\* computeDigitCounts
computeDigitCounts(files) ==
    [majorDigits |-> MaxOf({files[i].majorDigits : i \in 1..Len(files)}),
     minorDigits |-> [m \in {files[i].major : i \in 1..Len(files)} |->
                        MaxOf({files[i].minorDigits :
                                 i \in {j \in 1..Len(files) : files[j].major = m}})]]

\* Mutant: the first file of a group always gets minor number 0.
NewMinorNoSingle(files, i, previousMajor) ==
    IF At(files, i).major # previousMajor
    THEN 0
    ELSE At(files, i - 1).minor + 1

\* Mutant: a later file of a group counts on from its own minor number.
NewMinorOwn(files, i, previousMajor) ==
    IF At(files, i).major # previousMajor
    THEN IF i = Len(files) - 1 \/ At(files, i).major # At(files, i + 1).major
         THEN NoVersion
         ELSE 0
    ELSE At(files, i).minor + 1

\* Mutant: every file of a group of several gets minor number 0.
NewMinorZero(files, i, previousMajor) ==
    IF At(files, i).major # previousMajor
    THEN IF i = Len(files) - 1 \/ At(files, i).major # At(files, i + 1).major
         THEN NoVersion
         ELSE 0
    ELSE 0

\* The minor number the loop of renumberMinorVersions gives files[i] (Go
\* index); files holds the descriptors already updated below i.
NewMinor(files, i, previousMajor) ==
    IF At(files, i).major # previousMajor
    THEN IF i = Len(files) - 1 \/ At(files, i).major # At(files, i + 1).major
         THEN NoVersion
         ELSE 0
    ELSE At(files, i - 1).minor + 1

\* Mutant: the major width is not set.
RenumberedMinorOnly(files, i, previousMajor, counts) ==
    [files EXCEPT ![i + 1] =
        [At(files, i) EXCEPT !.minorDigits = counts.minorDigits[At(files, i).major],
                             !.minor = NewMinor(files, i, previousMajor)]]

\* Mutant: the minor number is left as it was read.
RenumberedKeepMinor(files, i, previousMajor, counts) ==
    [files EXCEPT ![i + 1] =
        [At(files, i) EXCEPT !.minorDigits = counts.minorDigits[At(files, i).major],
                             !.majorDigits = counts.majorDigits]]

Renumbered(files, i, previousMajor, counts) ==
    [files EXCEPT ![i + 1] =
        [At(files, i) EXCEPT !.minorDigits = counts.minorDigits[At(files, i).major],
                             !.majorDigits = counts.majorDigits,
                             !.minor = NewMinor(files, i, previousMajor)]]

\* The loop of renumberMinorVersions from Go index i on.
RECURSIVE RenumberFrom(_, _, _, _)
RenumberFrom(files, i, previousMajor, counts) ==
    IF i >= Len(files) THEN files
    ELSE RenumberFrom(Renumbered(files, i, previousMajor, counts), i + 1,
                      At(files, i).major, counts)

renumberMinorVersions(files) ==
    RenumberFrom(files, 0, NoVersion, computeDigitCounts(files))

\* The inner loop of the first pass: back to the first file of the group.
RECURSIVE GroupStart(_, _)
GroupStart(files, idx) ==
    IF idx > 0 /\ At(files, idx - 1).major = At(files, idx).major
    THEN GroupStart(files, idx - 1)
    ELSE idx

\* The first pass of ComputeRenames from unused[unusedIdx] on (Go index).
RECURSIVE Backtrack(_, _, _, _)
Backtrack(files, unusedList, unusedIdx, idx) ==
    IF unusedIdx >= Len(unusedList) THEN idx
    ELSE IF idx <= 0 \/ At(unusedList, unusedIdx) > At(files, idx).major
    THEN idx
    ELSE Backtrack(files, unusedList, unusedIdx + 1, GroupStart(files, idx) - 1)

\* Mutant: the last shift is not undone.
UndoShiftNone(files, idx) == idx

\* "Undo our last shift"
UndoShift(files, idx) == IF idx < Len(files) - 1 THEN idx + 1 ELSE idx

\* The index where filling starts.
StartIndex(files, unusedList) ==
    UndoShift(files, Backtrack(files, unusedList, 0, Len(files) - 1))

\* Mutant: only the file at idx moves.
MoveGroupOne(files, idx, oldMajor, u) ==
    [files |-> [files EXCEPT ![idx + 1].major = u], majorIdx |-> idx + 1]

\* The inner loop of the second pass: every file from idx on that bears
\* oldMajor gets the major number u.  The result is the files and the index.
RECURSIVE MoveGroup(_, _, _, _)
MoveGroup(files, idx, oldMajor, u) ==
    IF idx < Len(files) /\ At(files, idx).major = oldMajor
    THEN MoveGroup([files EXCEPT ![idx + 1].major = u], idx + 1, oldMajor, u)
    ELSE [files |-> files, majorIdx |-> idx]

\* Mutant: the unused number taken is not popped; every group gets unused[0].
RECURSIVE FillNoPop(_, _, _)
FillNoPop(st, unusedList, k) ==
    IF k >= Len(unusedList) \/ st.majorIdx >= Len(st.files)
    THEN [files |-> st.files, panic |-> FALSE]
    ELSE IF st.majorIdx < 0 THEN [files |-> st.files, panic |-> TRUE]
    ELSE IF At(unusedList, 0) > At(st.files, st.majorIdx).major
    THEN [files |-> st.files, panic |-> FALSE]
    ELSE FillNoPop(MoveGroup(st.files, st.majorIdx, At(st.files, st.majorIdx).major,
                             At(unusedList, 0)),
                   unusedList, k + 1)

\* The second pass from unused[k] on (Go index).  files[majorIdx] with
\* majorIdx = -1 is an index out of range: the run ends in a panic.
RECURSIVE Fill(_, _, _)
Fill(st, unusedList, k) ==
    IF k >= Len(unusedList) \/ st.majorIdx >= Len(st.files)
    THEN [files |-> st.files, panic |-> FALSE]
    ELSE IF st.majorIdx < 0 THEN [files |-> st.files, panic |-> TRUE]
    ELSE IF At(unusedList, k) > At(st.files, st.majorIdx).major
    THEN [files |-> st.files, panic |-> FALSE]
    ELSE Fill(MoveGroup(st.files, st.majorIdx, At(st.files, st.majorIdx).major,
                        At(unusedList, k)),
              unusedList, k + 1)

FillHolesFrom(files, unusedList, idx) ==
    Fill([files |-> files, majorIdx |-> idx], unusedList, 0)

\* Mutant: every file is listed, changed or not.
EntryAlways(old, new) == <<[oldName |-> old, newName |-> new]>>

\* changedNames
Entry(old, new) == IF old # new THEN <<[oldName |-> old, newName |-> new]>> ELSE <<>>

RECURSIVE ChangedFrom(_, _)
ChangedFrom(files, i) ==
    IF i > Len(files) THEN <<>>
    ELSE Entry(files[i].originalName, String(files[i])) \o ChangedFrom(files, i + 1)

changedNames(files) == ChangedFrom(files, 1)

\* ComputeRenames on descriptors already sorted: the final descriptors, and
\* whether the run ends in a panic.
FilledFrom(files, unusedList) ==
    FillHolesFrom(files, unusedList, StartIndex(files, unusedList))

Planned(sorted, unusedList) == FilledFrom(renumberMinorVersions(sorted), unusedList)

\* ComputeRenames as a function of its arguments: the plans it may return
\* (one for each order sort.Sort may leave equal descriptors in).
ComputeRenames(names, unusedList) ==
    {changedNames(r.files) :
        r \in {q \in {Planned(sorted, unusedList) :
                        sorted \in SortedOrders(Parsed(names))} : ~q.panic}}

\* ---------------------------------------------------------------- the run
\* The prompt has not returned.
NoAnswer == <<"?">>

VARIABLES
    dir,        \* the names in the directory
    fileNames,  \* ReadFileNames' result
    errors,     \* ValidateFileNames' errors: name -> messages
    unused,     \* ValidateFileNames' unused major numbers
    files,      \* ComputeRenames' descriptors
    majorIdx,   \* ComputeRenames' index into files (Go index)
    renames,    \* the plan
    printed,    \* how many entries of the plan have been printed
    answer,     \* what the prompt's switch has seen of the line it read
    log,        \* the renames attempted, in order, and how each ended
    pc          \* where main() is

vars == <<dir, fileNames, errors, unused, files, majorIdx, renames, printed, answer, log, pc>>

Init ==
    /\ dir \in Directories
    /\ fileNames = <<>>
    /\ errors = NoErrors
    /\ unused = <<>>
    /\ files = <<>>
    /\ majorIdx = 0
    /\ renames = <<>>
    /\ printed = 0
    /\ answer = NoAnswer
    /\ log = <<>>
    /\ pc = "ReadFileNames"

\* ReadFileNames: the directory's entries by name, without the thumbnail cache.
ReadFileNames ==
    /\ pc = "ReadFileNames"
    /\ fileNames' = SortStrings({n \in dir : n # ThumbsDb})
    /\ pc' = "ValidateFileNames"
    /\ UNCHANGED <<dir, errors, unused, files, majorIdx, renames, printed, answer, log>>

Validate ==
    /\ pc = "ValidateFileNames"
    /\ \E rep \in RepresentativesFor(fileNames) :
         \E v \in {ValidateFileNames(fileNames, rep)} :
             /\ errors' = v.errors
             /\ unused' = v.unused
    /\ pc' = "parseFileNames"
    /\ UNCHANGED <<dir, fileNames, files, majorIdx, renames, printed, answer, log>>

\* ComputeRenames, line by line
ParseFileNames ==
    /\ pc = "parseFileNames"
    /\ files' \in SortedOrders(Parsed(fileNames))
    /\ pc' = "renumberMinorVersions"
    /\ UNCHANGED <<dir, fileNames, errors, unused, majorIdx, renames, printed, answer, log>>

RenumberMinorVersions ==
    /\ pc = "renumberMinorVersions"
    /\ files' = renumberMinorVersions(files)
    /\ pc' = "findStart"
    /\ UNCHANGED <<dir, fileNames, errors, unused, majorIdx, renames, printed, answer, log>>

FindStart ==
    /\ pc = "findStart"
    /\ majorIdx' = StartIndex(files, unused)
    /\ pc' = "fillHoles"
    /\ UNCHANGED <<dir, fileNames, errors, unused, files, renames, printed, answer, log>>

FillHoles ==
    /\ pc = "fillHoles"
    /\ \E r \in {FillHolesFrom(files, unused, majorIdx)} :
           /\ files' = r.files
           /\ pc' = IF r.panic THEN "panic" ELSE "changedNames"
    /\ UNCHANGED <<dir, fileNames, errors, unused, majorIdx, renames, printed, answer, log>>

ChangedNames ==
    /\ pc = "changedNames"
    /\ renames' = changedNames(files)
    /\ pc' = "planned"
    /\ UNCHANGED <<dir, fileNames, errors, unused, files, majorIdx, printed, answer, log>>

\* -------------------------------------------------- the prompt, the renames
\* The lines the user may type, each with its line ending.
Lines ==
    {<<"y", "\n">>, <<"Y", "\r", "\n">>, <<"n", "\n">>, <<"N", "\n">>,
     <<"x", "\n">>, <<"y", "e", "s", "\n">>, <<"\n">>, <<" ", "\n">>}

IsLineEnd(c) == c \in {"\n", "\r"}
IsSpace(c) == c \in {" ", "\t", "\n", "\r"}

\* strings.Replace(a, "\n", "", -1), then the same for "\r"
NotLineEnd(c) == ~IsLineEnd(c)
StripLineEnds(a) == SelectSeq(a, NotLineEnd)

\* strings.TrimSpace
RECURSIVE TrimLeft(_)
TrimLeft(a) == IF a # <<>> /\ IsSpace(Head(a)) THEN TrimLeft(Tail(a)) ELSE a
RECURSIVE TrimRight(_)
TrimRight(a) ==
    IF a # <<>> /\ IsSpace(a[Len(a)]) THEN TrimRight(SubSeq(a, 1, Len(a) - 1)) ELSE a
TrimSpace(a) == TrimRight(TrimLeft(a))

\* strings.ToLower
LowerOf(c) ==
    IF c \in Range(UpperChars)
    THEN LowerChars[CHOOSE i \in 1..Len(UpperChars) : UpperChars[i] = c]
    ELSE c
ToLower(a) == [i \in 1..Len(a) |-> LowerOf(a[i])]

\* One round of prompt's loop on the string t the switch indexes: where the
\* program is next.  t[0] of an empty string is an index out of range.
SwitchOn(t) ==
    IF t = <<>> THEN "promptPanic"
    ELSE IF t[1] = "y" THEN "rename"
    ELSE IF t[1] = "n" THEN "exit"
    ELSE "prompt"

\* ... on the line a, its line ends removed
RoundOn(a) == IF Len(a) # 1 THEN "prompt" ELSE SwitchOn(ToLower(TrimSpace(a)))

\* main with -renumber=false ends after the validation.
NoRenumber ==
    /\ pc = "parseFileNames"
    /\ pc' = "exit"
    /\ UNCHANGED <<dir, fileNames, errors, unused, files, majorIdx, renames, printed, answer, log>>

\* "Proposed renames": one entry a step, then the prompt.
PrintRenames ==
    /\ pc = "planned"
    /\ printed' = IF printed < Len(renames) THEN printed + 1 ELSE printed
    /\ pc' = IF printed < Len(renames) THEN "planned" ELSE "prompt"
    /\ UNCHANGED <<dir, fileNames, errors, unused, files, majorIdx, renames, answer, log>>

\* One round of prompt's loop: a line is read, or the read fails.
Prompt ==
    /\ pc = "prompt"
    /\ \E line \in Lines :
          \E next \in {RoundOn(StripLineEnds(line))} :
              /\ pc' = next
              /\ answer' = IF next = "prompt" THEN answer
                           ELSE ToLower(TrimSpace(StripLineEnds(line)))
    /\ UNCHANGED <<dir, fileNames, errors, unused, files, majorIdx, renames, printed, log>>

\* in.ReadString returns an error (end of input): log.Fatal
PromptReadFails ==
    /\ pc = "prompt"
    /\ pc' = "fatal"
    /\ UNCHANGED <<dir, fileNames, errors, unused, files, majorIdx, renames, printed, answer, log>>

\* os.Rename(old, new) on the directory: it fails when old does not exist,
\* and may fail otherwise; when it succeeds, new is old's file, and a file
\* that bore the name new is gone.
Renamed(d, r, ok) == IF ok THEN (d \ {r.oldName}) \cup {r.newName} ELSE d

\* What the log keeps of a rename: whether it succeeded, and whether the new
\* name was occupied.
Attempt(d, r, ok) ==
    [oldName |-> r.oldName, newName |-> r.newName, ok |-> ok, onto |-> r.newName \in d]

\* Mutant: the loop ends at the first rename that fails.
AfterRenameStop(ok) == IF ok THEN "rename" ELSE "exit"

\* Where main is after RenameFile: the error of os.Rename is not looked at.
AfterRename(ok) == "rename"

\* The rename loop of main: RenameFile for the next entry (its error is
\* dropped), or the end of the loop.
Rename ==
    /\ pc = "rename"
    /\ IF Len(log) < Len(renames)
       THEN \E ok \in {b \in BOOLEAN : b => renames[Len(log) + 1].oldName \in dir} :
               /\ dir' = Renamed(dir, renames[Len(log) + 1], ok)
               /\ log' = Append(log, Attempt(dir, renames[Len(log) + 1], ok))
               /\ pc' = AfterRename(ok)
       ELSE /\ pc' = "exit"
            /\ UNCHANGED <<dir, log>>
    /\ UNCHANGED <<fileNames, errors, unused, files, majorIdx, renames, printed, answer>>

Next ==
    \/ ReadFileNames
    \/ Validate
    \/ NoRenumber
    \/ ParseFileNames
    \/ RenumberMinorVersions
    \/ FindStart
    \/ FillHoles
    \/ ChangedNames
    \/ PrintRenames
    \/ Prompt
    \/ PromptReadFails
    \/ Rename

Spec == Init /\ [][Next]_vars

\* ------------------------------------------- ValidateFileNames on any list
\* A third file name with major number 1 and no minor number
Gif001 == <<"0", "0", "1", ".">> \o Gif

ListedNames == (Universe \ {ThumbsDb}) \cup {Gif001}

\* The lists that hold every element of S once
RECURSIVE Orderings(_)
Orderings(S) ==
    IF S = {} THEN {<<>>}
    ELSE UNION {{<<x>> \o t : t \in Orderings(S \ {x})} : x \in S}

\* ValidateFileNames(files) is called on a list of distinct names in any order.
ValidatorInit ==
    /\ fileNames \in UNION {Orderings(S) : S \in SubsetsUpTo(ListedNames, MaxListed)}
    /\ dir = Range(fileNames)
    /\ errors = NoErrors
    /\ unused = <<>>
    /\ files = <<>>
    /\ majorIdx = 0
    /\ renames = <<>>
    /\ printed = 0
    /\ answer = NoAnswer
    /\ log = <<>>
    /\ pc = "ValidateFileNames"

SpecValidator == ValidatorInit /\ [][Validate]_vars

\* ----------------------------------------- ComputeRenames on any unused list
\* The ascending lists of numbers in 0 .. MaxHole
AscendingLists == {SortInts(S) : S \in SUBSET (0..MaxHole)}

\* ComputeRenames(fileNames, unused) is called on a list of names and any
\* ascending unused list.
PlannerInit ==
    /\ fileNames \in {SortStrings(S) : S \in SubsetsUpTo(Universe \ {ThumbsDb}, MaxPlanned)}
    /\ unused \in AscendingLists
    /\ dir = Range(fileNames)
    /\ errors = NoErrors
    /\ files = <<>>
    /\ majorIdx = 0
    /\ renames = <<>>
    /\ printed = 0
    /\ answer = NoAnswer
    /\ log = <<>>
    /\ pc = "parseFileNames"

PlannerNext ==
    \/ ParseFileNames
    \/ RenumberMinorVersions
    \/ FindStart
    \/ FillHoles
    \/ ChangedNames

SpecPlanner == PlannerInit /\ [][PlannerNext]_vars

\* ------------------------------------------------------- the codec, alone
\* Tags of the grammar -[A-Za-z][A-Za-z0-9]+, and no tag
Tags == {<<>>, Foo, <<"-", "b", "4">>, <<"-", "X", "9", "z">>}

TwoDigits == 10

\* The descriptors rendered: major >= 0, minor absent or >= 0, any widths.
Descriptors ==
    [major : 0..MaxMajor \cup {TwoDigits},
     minor : {NoMinorVersion} \cup 0..MaxMinor \cup {TwoDigits},
     majorDigits : 0..MaxDigits,
     minorDigits : 0..MaxDigits,
     descriptor : Tags,
     extension : Extensions,
     originalName : {<<>>}]

\* files holds the descriptor, fileNames its rendered name.
CodecInit ==
    /\ files \in {<<d>> : d \in Descriptors}
    /\ fileNames = <<>>
    /\ dir = {}
    /\ errors = NoErrors
    /\ unused = <<>>
    /\ majorIdx = 0
    /\ renames = <<>>
    /\ printed = 0
    /\ answer = NoAnswer
    /\ log = <<>>
    /\ pc = "String"

\* f.String()
Render ==
    /\ pc = "String"
    /\ fileNames' = <<String(files[1])>>
    /\ pc' = "ParseFileName"
    /\ UNCHANGED <<dir, errors, unused, files, majorIdx, renames, printed, answer, log>>

\* ParseFileName of the rendered name; its result is kept next to the
\* descriptor.
Reparse ==
    /\ pc = "ParseFileName"
    /\ files' = Append(files, ParseFileName(fileNames[1]))
    /\ pc' = "reparsed"
    /\ UNCHANGED <<dir, fileNames, errors, unused, majorIdx, renames, printed, answer, log>>

CodecNext ==
    \/ Render
    \/ Reparse

SpecCodec == CodecInit /\ [][CodecNext]_vars

\* ------------------------------------------------------------ properties
\* ComputeRenames has just returned its plan.
PlanReady == pc = "planned" /\ printed = 0

FileIdx == 1..Len(files)

\* The descriptor the i-th file was parsed to, before any renumbering.
Orig(i) == ParseFileName(files[i].originalName)

OrigMajors == {Orig(i).major : i \in FileIdx}

\* G, the number of distinct original major numbers
NumGroups == Cardinality(OrigMajors)

\* The files that share the i-th file's original major number
GroupOf(i) == {j \in FileIdx : Orig(j).major = Orig(i).major}

Moved(i) == files[i].major # Orig(i).major

InputWellFormed == \A k \in 1..Len(fileNames) : ~ParseFileName(fileNames[k]).error

InputCollisionFree ==
    \A i, j \in FileIdx :
        i # j => <<Orig(i).major, Orig(i).minor>> # <<Orig(j).major, Orig(j).minor>>

\* The number fields of a well-formed name, as text
MajorField(name) == FindStringSubmatch(name)[1]
MinorField(name) == Tail(FindStringSubmatch(name)[2])

NumDigits(n) == Len(Itoa(n))

\* C1: for well-formed, collision-free names and the validator's unused
\* list, the final major numbers are exactly 0 .. G-1.
C1_GapFree ==
    (PlanReady /\ InputWellFormed /\ InputCollisionFree)
        => {files[i].major : i \in FileIdx} = 0..(NumGroups - 1)

\* C2: two files that share a major number in the input have the same final
\* major number in the plan.
C2_GroupAtomic ==
    PlanReady =>
        \A i, j \in FileIdx :
            Orig(i).major = Orig(j).major => files[i].major = files[j].major

\* A group of several files that reaches index 0, is not the last group, and
\* has moved.
C2_Witness ==
    /\ PlanReady
    /\ Len(files) >= 3
    /\ Orig(1).major = Orig(2).major
    /\ Orig(Len(files)).major # Orig(1).major
    /\ Moved(1)
    /\ Moved(2)

\* The original major numbers of the groups that moved, ascending
MovedMajors == SortInts({Orig(i).major : i \in {j \in FileIdx : Moved(j)}})

\* C3: the i-th moved group (by ascending original major) gets the i-th
\* smallest unused number, which is lower than its old major number, and the
\* unused numbers beyond the count of moved groups are assigned to no file.
C3_LowestUnusedInOrder ==
    PlanReady =>
        /\ Len(MovedMajors) <= Len(unused)
        /\ \A k \in 1..Len(MovedMajors) :
              /\ unused[k] < MovedMajors[k]
              /\ \A i \in FileIdx :
                    Orig(i).major = MovedMajors[k] => files[i].major = unused[k]
        /\ \A k \in (Len(MovedMajors) + 1)..Len(unused) :
              \A i \in FileIdx : files[i].major # unused[k]

\* Two groups have moved and unused numbers are left over.
C3_Witness ==
    /\ PlanReady
    /\ Len(MovedMajors) >= 2
    /\ Len(unused) > Len(MovedMajors)

\* C4: every file whose original major number is less than G keeps it.
C4_BelowGapUntouched ==
    PlanReady =>
        \A i \in FileIdx :
            Orig(i).major < NumGroups => files[i].major = Orig(i).major

\* A file above an unused number keeps its major number, being below G,
\* while a later group moves into that number.
C4_Witness ==
    /\ PlanReady
    /\ \E i, j \in FileIdx :
          /\ Orig(i).major < NumGroups
          /\ ~Moved(i)
          /\ Moved(j)
          /\ files[j].major < Orig(i).major

\* C5: a group of one file has no minor number; a group of k >= 2 files has
\* exactly the minor numbers 0 .. k-1, in the order of the original minor
\* numbers, a file without a minor number first.
C5_MinorsDense ==
    PlanReady =>
        \A i \in FileIdx :
            IF Cardinality(GroupOf(i)) = 1
            THEN files[i].minor = NoMinorVersion
            ELSE /\ {files[j].minor : j \in GroupOf(i)}
                      = 0..(Cardinality(GroupOf(i)) - 1)
                 /\ \A j \in GroupOf(i) :
                       \/ (Orig(i).minor = NoMinorVersion
                             /\ Orig(j).minor # NoMinorVersion)
                       \/ (Orig(i).minor # NoMinorVersion
                             /\ Orig(j).minor # NoMinorVersion
                             /\ Orig(i).minor < Orig(j).minor)
                       => files[i].minor < files[j].minor

\* A single file that had a minor number, and a group whose original minor
\* numbers were not 0 .. k-1 (one file without a minor, one with minor 2).
C5_Witness ==
    /\ PlanReady
    /\ \E i \in FileIdx :
          Cardinality(GroupOf(i)) = 1 /\ Orig(i).minor # NoMinorVersion
    /\ \E i, j \in FileIdx :
          /\ j \in GroupOf(i)
          /\ Orig(i).minor = NoMinorVersion
          /\ Orig(j).minor = 2
          /\ Cardinality(GroupOf(i)) = 2

MaxOrigMajor == MaxOf(OrigMajors)

GroupMinorWidth(i) ==
    MaxOf({NumDigits(Orig(j).minor) :
             j \in {g \in GroupOf(i) : Orig(g).minor # NoMinorVersion}})

\* C7: in the planned names a minor number is zero-padded to the number of
\* decimal digits of the largest original minor number of its own group (and
\* is never cut), whatever the minor numbers of the other groups are.
C7_MinorWidthPerGroup ==
    PlanReady =>
        \A i \in FileIdx :
            files[i].minor # NoMinorVersion =>
                /\ Len(MinorField(String(files[i])))
                      = max(GroupMinorWidth(i), NumDigits(files[i].minor))
                /\ Atoi(MinorField(String(files[i]))) = files[i].minor

\* One group pads its minor numbers to two digits, another to one.
C7_Witness ==
    /\ PlanReady
    /\ \E i, j \in FileIdx :
          /\ files[i].minor # NoMinorVersion
          /\ files[j].minor # NoMinorVersion
          /\ NumDigits(files[i].minor) = 1
          /\ Len(MinorField(String(files[i]))) = 2
          /\ Len(MinorField(String(files[j]))) = 1

RenameIdx == 1..Len(renames)

\* C8: the plan holds an entry for a parsed file exactly if its final name
\* differs from its original name, with that final name; no name is renamed
\* twice, none to itself, and the entries are in the order of the original
\* (major, minor).
C8_PlanIsTheDiff ==
    PlanReady =>
        /\ \A i \in FileIdx :
              (\E k \in RenameIdx : renames[k].oldName = files[i].originalName)
                  <=> String(files[i]) # files[i].originalName
        /\ \A k \in RenameIdx :
              /\ \E n \in 1..Len(fileNames) : fileNames[n] = renames[k].oldName
              /\ ~ParseFileName(renames[k].oldName).error
              /\ \E i \in FileIdx :
                    /\ files[i].originalName = renames[k].oldName
                    /\ String(files[i]) = renames[k].newName
              /\ renames[k].oldName # renames[k].newName
        /\ \A k, l \in RenameIdx :
              k < l =>
                  /\ renames[k].oldName # renames[l].oldName
                  /\ ~Less(ParseFileName(renames[l].oldName),
                           ParseFileName(renames[k].oldName))

\* Two files are renamed, a parsed file between them in the order keeps its
\* name, and a name outside the grammar is present.
C8_Witness ==
    /\ PlanReady
    /\ Len(renames) >= 2
    /\ ~InputWellFormed
    /\ \E i \in FileIdx :
          /\ String(files[i]) = files[i].originalName
          /\ Less(ParseFileName(renames[1].oldName), Orig(i))
          /\ Less(Orig(i), ParseFileName(renames[2].oldName))

\* The name a file bears once the plan is applied
NewNameOf(name) ==
    IF \E k \in RenameIdx : renames[k].oldName = name
    THEN renames[CHOOSE k \in RenameIdx : renames[k].oldName = name].newName
    ELSE name

\* The names that result from applying the plan
OutputNames == [n \in 1..Len(fileNames) |-> NewNameOf(fileNames[n])]

\* C9, as stated: ComputeRenames on the output names of a run, with an empty
\* unused list, returns no renames.
C9_Idempotent == PlanReady => ComputeRenames(OutputNames, <<>>) = {<<>>}

OutputParsed == Parsed(OutputNames)

\* Every number field of the output names is as wide as the largest number
\* it is padded along with: the major fields as the largest major number,
\* the minor fields of a group as the largest minor number of the group.
OutputWidthsTight ==
    \A p \in OutputParsed :
        /\ Len(MajorField(p.originalName))
              = NumDigits(MaxOf({q.major : q \in OutputParsed}))
        /\ p.minor # NoMinorVersion =>
              Len(MinorField(p.originalName))
                  = NumDigits(MaxOf({q.minor : q \in {r \in OutputParsed :
                                                         r.major = p.major}}))

\* C9, amended: ComputeRenames on the output names of a run, with an empty
\* unused list, returns no renames when no number field of the output names
\* is wider than the largest number it is padded along with needs (the
\* renumbering of the first run has not made a digit superfluous).
C9_IdempotentAtTightWidths ==
    (PlanReady /\ OutputWidthsTight) => ComputeRenames(OutputNames, <<>>) = {<<>>}

\* The first run has moved a group, renumbered a minor number and dropped
\* the zero padding of an input name, and the widths of the output are tight.
C9_Witness ==
    /\ PlanReady
    /\ OutputWidthsTight
    /\ \E i \in FileIdx : Moved(i)
    /\ \E i \in FileIdx : files[i].minor # Orig(i).minor
    /\ \E i \in FileIdx :
          Len(MajorField(files[i].originalName)) > NumDigits(Orig(i).major)

\* The names that parse, as ValidateFileNames sees them
NameIdx == 1..Len(fileNames)
Piece(k) == ParseFileName(fileNames[k])
SameMajor(k) == {j \in NameIdx : Piece(j).major = Piece(k).major}

\* A well-formed, collision-free file set with major numbers 0 .. n-1 in
\* which each group is one file without a minor number or k >= 2 files with
\* the minor numbers 0 .. k-1.
Canonical ==
    /\ InputWellFormed
    /\ \A j, k \in NameIdx :
          j # k => <<Piece(j).major, Piece(j).minor>> # <<Piece(k).major, Piece(k).minor>>
    /\ {Piece(k).major : k \in NameIdx}
          = 0..(Cardinality({Piece(k).major : k \in NameIdx}) - 1)
    /\ \A k \in NameIdx :
          IF Cardinality(SameMajor(k)) = 1
          THEN Piece(k).minor = NoMinorVersion
          ELSE {Piece(j).minor : j \in SameMajor(k)} = 0..(Cardinality(SameMajor(k)) - 1)

\* ValidateFileNames has returned, and nothing else has run since.
Validated == pc = "parseFileNames"

WellFormed == {k \in NameIdx : ~Piece(k).error}
WellFormedMajors == {Piece(k).major : k \in WellFormed}

\* C11: the unused list ValidateFileNames returns is strictly ascending and
\* holds exactly the numbers from 0 up to the largest major number of a
\* well-formed name that are the major number of no well-formed name (none
\* when no name is well-formed).
C11_UnusedList ==
    Validated =>
        /\ \A i \in 1..(Len(unused) - 1) : unused[i] < unused[i + 1]
        /\ Range(unused)
              = {n \in 0..(MaxOf(WellFormedMajors) - 1) : n \notin WellFormedMajors}

\* Two gaps with a well-formed major number between them, next to a name
\* outside the grammar.
C11_Witness ==
    /\ Validated
    /\ ~InputWellFormed
    /\ Len(unused) >= 2
    /\ \E n \in WellFormedMajors : unused[1] < n /\ n < unused[Len(unused)]

\* The list without the names outside the grammar
IsWellFormed(name) == ~ParseFileName(name).error
CleanNames == SelectSeq(fileNames, IsWellFormed)

\* The errors of the well-formed names
CleanErrors == [f \in {g \in DOMAIN errors : IsWellFormed(g)} |-> errors[f]]

\* ValidateFileNames has just returned.
ValidateReturned == pc = "parseFileNames"

\* C12: a name outside the grammar gets an error under its own name, and
\* is excluded from the numbering: ValidateFileNames on the list without
\* such names returns the same unused list and the same errors for the other
\* names, and ComputeRenames returns the plan it returns for the list without
\* them, in which none of them is an oldName.
C12_MalformedExcluded ==
    /\ ValidateReturned =>
          /\ \A k \in NameIdx :
                Piece(k).error =>
                    /\ fileNames[k] \in DOMAIN errors
                    /\ \E e \in 1..Len(errors[fileNames[k]]) :
                          errors[fileNames[k]][e].kind = "Bad filename"
          /\ \E rep \in RepresentativesFor(CleanNames) :
                ValidateFileNames(CleanNames, rep)
                    = [errors |-> CleanErrors, unused |-> unused]
    /\ PlanReady =>
          /\ \A k \in RenameIdx : IsWellFormed(renames[k].oldName)
          /\ renames \in ComputeRenames(CleanNames, unused)

\* A name outside the grammar next to well-formed names that have an error,
\* leave a major number unused and are renamed.
C12_Witness ==
    /\ PlanReady
    /\ ~InputWellFormed
    /\ Len(unused) >= 1
    /\ Len(renames) >= 1
    /\ DOMAIN CleanErrors # {}

\* The names of the list that parse to the same (major, minor) as the k-th
Colliding(k) ==
    {j \in WellFormed : Piece(j).major = Piece(k).major /\ Piece(j).minor = Piece(k).minor}

\* The name has a collision error for (major, minor) that names it.
HasCollisionError(name, major, minor) ==
    /\ name \in DOMAIN errors
    /\ \E e \in 1..Len(errors[name]) :
          /\ errors[name][e].kind
                = (IF minor = NoMinorVersion THEN "Overridden Major Number"
                   ELSE "Duplicate Major/Minor")
          /\ errors[name][e].a = major
          /\ minor # NoMinorVersion => errors[name][e].b = minor
          /\ name \in {errors[name][e].f1, errors[name][e].f2}

\* C13: when two or more names of the list parse to the same (major, minor),
\* every one of them has a collision error, however many they are and in
\* whatever order the list holds them.
C13_CollisionOnEveryFile ==
    Validated =>
        \A k \in WellFormed :
            Cardinality(Colliding(k)) >= 2 =>
                HasCollisionError(fileNames[k], Piece(k).major, Piece(k).minor)

\* Three names collide, and the list is not in the order of the names.
C13_Witness ==
    /\ Validated
    /\ \E k \in WellFormed : Cardinality(Colliding(k)) = 3
    /\ StrLess(fileNames[2], fileNames[1])
    /\ \A k \in WellFormed :
          HasCollisionError(fileNames[k], Piece(k).major, Piece(k).minor)

\* The errors "Numbering jumped from .. to N", as (file, position) pairs
JumpErrors(N) ==
    {p \in UNION {{f} \X (1..Len(errors[f])) : f \in DOMAIN errors} :
        /\ errors[p[1]][p[2]].kind = "Numbering jumped"
        /\ errors[p[1]][p[2]].b = N}

\* The well-formed major number before N, or -1
MajorBefore(N) ==
    IF \E n \in WellFormedMajors : n < N
    THEN CHOOSE n \in WellFormedMajors :
            n < N /\ \A o \in WellFormedMajors : o < N => o <= n
    ELSE -1

\* C14: a major number N > 0 of the well-formed names whose predecessor N-1
\* is the major number of none of them has the error "Numbering jumped from
\* P to N" (P the major number before N, -1 for the lowest) on exactly one
\* file, which bears the major number N; any other major number, 0 included,
\* has no such error.
C14_JumpOnOneFile ==
    Validated =>
        /\ \A N \in WellFormedMajors :
              IF N > 0 /\ (N - 1) \notin WellFormedMajors
              THEN /\ Cardinality(JumpErrors(N)) = 1
                   /\ \A p \in JumpErrors(N) :
                         /\ IsWellFormed(p[1])
                         /\ ParseFileName(p[1]).major = N
                         /\ \E k \in NameIdx : fileNames[k] = p[1]
                         /\ errors[p[1]][p[2]].a = MajorBefore(N)
                         /\ errors[p[1]][p[2]].f1 = p[1]
              ELSE JumpErrors(N) = {}
        /\ \A f \in DOMAIN errors : \A e \in 1..Len(errors[f]) :
              errors[f][e].kind = "Numbering jumped" => errors[f][e].b \in WellFormedMajors

\* The lowest major number is above 0 and two files bear it; a later major
\* number follows a gap as well.
C14_Witness ==
    /\ Validated
    /\ \E j, k \in WellFormed :
          /\ j # k
          /\ Piece(j).major = Piece(k).major
          /\ Piece(j).minor # Piece(k).minor
          /\ Piece(j).major > 0
          /\ MajorBefore(Piece(j).major) = -1
          /\ Cardinality(JumpErrors(Piece(j).major)) = 1
    /\ \E N \in WellFormedMajors : MajorBefore(N) >= 0 /\ JumpErrors(N) # {}

\* The well-formed names that bear major number N, and their minor values
Bearing(N) == {k \in WellFormed : Piece(k).major = N}
MinorsOf(N) == {Piece(k).minor : k \in Bearing(N)}

\* The k-th name is the first of the list with its (major, minor): the file
\* the seen index holds for that pair.
HoldsSlot(k) == \A j \in Colliding(k) : k <= j

\* The errors of a name that are about minor numbers
MinorKinds ==
    {"Minor version on single file", "Minor version numbering must start with 0",
     "Minor numbering jumped"}

MinorErrorsOn(name) ==
    IF name \in DOMAIN errors
    THEN {errors[name][e] : e \in {i \in 1..Len(errors[name]) :
                                      errors[name][i].kind \in MinorKinds}}
    ELSE {}

\* C15: for a major number with one distinct minor value, the file that
\* holds it has the error "Minor version on single file" exactly if the
\* value is an explicit minor number, and no file of the major number has any
\* other minor error; a file without a minor number has none.
C15_MinorOnSingleFile ==
    Validated =>
        \A N \in WellFormedMajors :
            Cardinality(MinorsOf(N)) = 1 =>
                \A k \in Bearing(N) :
                    MinorErrorsOn(fileNames[k])
                        = IF Piece(k).minor # NoMinorVersion /\ HoldsSlot(k)
                          THEN {Msg("Minor version on single file", Piece(k).minor, -1,
                                    fileNames[k], <<>>)}
                          ELSE {}

\* One major number with a single file that has a minor number, flagged, and
\* another with a single file without one, which has no error at all.
C15_Witness ==
    /\ Validated
    /\ \E k \in WellFormed :
          /\ Cardinality(Bearing(Piece(k).major)) = 1
          /\ Piece(k).minor # NoMinorVersion
          /\ MinorErrorsOn(fileNames[k]) # {}
    /\ \E k \in WellFormed :
          /\ Cardinality(Bearing(Piece(k).major)) = 1
          /\ Piece(k).minor = NoMinorVersion
          /\ fileNames[k] \notin DOMAIN errors

\* The minor value of the group N before v, when there is one
HasMinorBefore(N, v) == \E w \in MinorsOf(N) : w < v
MinorBefore(N, v) ==
    CHOOSE w \in MinorsOf(N) : w < v /\ \A x \in MinorsOf(N) : x < v => x <= w

\* The minor error the k-th name is due, as a set: none, "must start with 0"
\* for a first value other than 0 or a value after the no-minor marker,
\* "jumped" for a gap after an explicit minor number.
MinorErrorDue(k) ==
    IF ~HoldsSlot(k) THEN {}
    ELSE IF ~HasMinorBefore(Piece(k).major, Piece(k).minor)
    THEN IF Piece(k).minor = 0 THEN {}
         ELSE {Msg("Minor version numbering must start with 0", -1, -1,
                   fileNames[k], <<>>)}
    ELSE IF MinorBefore(Piece(k).major, Piece(k).minor) = NoMinorVersion
    THEN {Msg("Minor version numbering must start with 0", -1, -1, fileNames[k], <<>>)}
    ELSE IF Piece(k).minor = MinorBefore(Piece(k).major, Piece(k).minor) + 1 THEN {}
    ELSE {Msg("Minor numbering jumped", MinorBefore(Piece(k).major, Piece(k).minor),
              Piece(k).minor, fileNames[k], <<>>)}

\* C16: a major group with two or more distinct minor values has no minor
\* error exactly if the values are 0 .. k-1; otherwise the file at each
\* violation, and no other, is flagged: "must start with 0" when the first
\* value is not 0 or the value before is the no-minor marker, "Minor
\* numbering jumped" for a gap after an explicit minor number.
C16_MinorSequence ==
    Validated =>
        \A N \in WellFormedMajors :
            Cardinality(MinorsOf(N)) >= 2 =>
                /\ \A k \in Bearing(N) : MinorErrorsOn(fileNames[k]) = MinorErrorDue(k)
                /\ (\A k \in Bearing(N) : MinorErrorsOn(fileNames[k]) = {})
                      <=> MinorsOf(N) = 0..(Cardinality(MinorsOf(N)) - 1)

\* A group of a file without a minor number, minor 0 and minor 2: the three
\* violations at once.
C16_Witness ==
    /\ Validated
    /\ \E N \in WellFormedMajors :
          /\ MinorsOf(N) = {NoMinorVersion, 0, 2}
          /\ \A k \in Bearing(N) : MinorErrorsOn(fileNames[k]) # {}
          /\ \E k \in Bearing(N) :
                \E e \in MinorErrorsOn(fileNames[k]) : e.kind = "Minor numbering jumped"

\* ComputeRenames has stopped on an index out of range.
Panicked == pc = "panic"

\* C17: ComputeRenames never ends in a runtime failure, whatever names and
\* whatever ascending unused list it is given, and its plan is empty when no
\* name parses.
C17_CannotFail ==
    /\ ~Panicked
    /\ (PlanReady /\ WellFormed = {}) => renames = <<>>

\* C18, as stated: if a sorts before b by original (major, minor), a's final
\* (major, minor) sorts before b's.
C18_OrderPreserved ==
    PlanReady =>
        \A i, j \in FileIdx : Less(Orig(i), Orig(j)) => Less(files[i], files[j])

\* C18, amended: the order of two files is preserved when they have the same
\* original major number, or when their groups have both moved or have both
\* stayed.  (A moved group takes an unused number below its old one, and so
\* passes the groups between that stay.)
C18_OrderAmongMovedAndAmongKept ==
    PlanReady =>
        \A i, j \in FileIdx :
            (/\ Less(Orig(i), Orig(j))
             /\ (Orig(i).major = Orig(j).major \/ (Moved(i) <=> Moved(j))))
                => Less(files[i], files[j])

\* Two groups have moved, one of them of two files, and a group that stayed
\* now sorts after a moved group that it preceded.
C18_Witness ==
    /\ PlanReady
    /\ \E i, j \in FileIdx :
          Moved(i) /\ Moved(j) /\ Orig(i).major < Orig(j).major
    /\ \E i, j \in FileIdx :
          Moved(i) /\ Orig(i).major = Orig(j).major /\ Less(Orig(i), Orig(j))
    /\ \E i, j \in FileIdx :
          ~Moved(i) /\ Moved(j) /\ Less(Orig(i), Orig(j)) /\ Less(files[j], files[i])

\* The codec alone: the descriptor, its rendered name, and what ParseFileName
\* returned for that name.
Reparsed == pc = "reparsed"
Given == files[1]
RenderedName == fileNames[1]
Returned == files[2]

\* C19: ParseFileName of a descriptor's rendered name succeeds and returns
\* the descriptor's major number, minor number (none stays none), tag and
\* extension, whatever digit widths the descriptor asks for.
C19_RoundTrip ==
    Reparsed =>
        /\ ~Returned.error
        /\ Returned.major = Given.major
        /\ Returned.minor = Given.minor
        /\ Returned.descriptor = Given.descriptor
        /\ Returned.extension = Given.extension

\* A descriptor with a tag whose two numbers are both rendered with zero
\* padding, and read back.
C19_Witness ==
    /\ Reparsed
    /\ Given.minor # NoMinorVersion
    /\ Given.descriptor # <<>>
    /\ Given.majorDigits > NumDigits(Given.major)
    /\ Given.minorDigits > NumDigits(Given.minor)
    /\ Len(MajorField(RenderedName)) = Given.majorDigits
    /\ Len(MinorField(RenderedName)) = Given.minorDigits
    /\ Returned.major = Given.major
    /\ Returned.minor = Given.minor

\* C20, as stated: the widths ParseFileName returns for a rendered name are
\* at least the widths of the number fields of that name.
C20_WidthsAtLeastRendered ==
    Reparsed =>
        /\ Returned.majorDigits >= Len(MajorField(RenderedName))
        /\ Given.minor # NoMinorVersion =>
              Returned.minorDigits >= Len(MinorField(RenderedName))

\* C20, amended: the widths ParseFileName returns are the natural decimal
\* widths of the numbers read (0 for no minor number); they are at most the
\* widths of the fields of the rendered name, and equal to them exactly when
\* the field was rendered without zero padding.
C20_WidthsAreNatural ==
    Reparsed =>
        /\ Returned.majorDigits = NumDigits(Given.major)
        /\ Returned.majorDigits <= Len(MajorField(RenderedName))
        /\ Returned.majorDigits = Len(MajorField(RenderedName))
              <=> Given.majorDigits <= NumDigits(Given.major)
        /\ IF Given.minor = NoMinorVersion
           THEN Returned.minorDigits = 0
           ELSE /\ Returned.minorDigits = NumDigits(Given.minor)
                /\ Returned.minorDigits <= Len(MinorField(RenderedName))
                /\ Returned.minorDigits = Len(MinorField(RenderedName))
                      <=> Given.minorDigits <= NumDigits(Given.minor)

\* Both number fields of the rendered name are zero-padded, and the widths
\* returned are smaller than the fields.
C20_Witness ==
    /\ Reparsed
    /\ Given.minor # NoMinorVersion
    /\ Returned.majorDigits < Len(MajorField(RenderedName))
    /\ Returned.minorDigits < Len(MinorField(RenderedName))
    /\ Returned.majorDigits = NumDigits(Given.major)

\* The directory holds the names ReadFileNames returned (and the thumbnail
\* cache, if any): no rename has touched it.
Untouched == pc = "ReadFileNames" \/ (dir \ {ThumbsDb}) = Range(fileNames)

Yes == <<"y">>
No == <<"n">>

\* No rename is attempted, and the directory is as it was read, unless the
\* whole plan has been printed and the prompt has returned on "y".
RenamesOnlyAfterYes ==
    (log # <<>> \/ ~Untouched) => (printed = Len(renames) /\ answer = Yes)

\* C21: no file is renamed before the whole plan is printed and the prompt
\* has returned yes; the directory is unchanged after "n" and while no
\* recognized answer is given; and the prompt goes on asking until it reads
\* a one-character y or n: it is left on no other line.
C21_NoRenameBeforeYes ==
    /\ RenamesOnlyAfterYes
    /\ answer \in {No, NoAnswer} => (Untouched /\ log = <<>>)
    /\ pc # "promptPanic"
    /\ answer # NoAnswer => answer \in {Yes, No}

\* The directory after the first k renames of the log, from the directory d
RECURSIVE Replay(_, _)
Replay(d, k) ==
    IF k = 0 THEN d
    ELSE Renamed(Replay(d, k - 1), renames[k], log[k].ok)

\* The directory as it was read
DirectoryRead == Range(fileNames) \cup (dir \cap {ThumbsDb})

\* C22: once the prompt has returned yes, the entries of the plan are
\* attempted one by one in plan order, each once; a rename that fails ends
\* nothing and undoes nothing: the loop goes on to the next entry, the
\* directory holds the result of every rename that succeeded, and main ends
\* only when every entry has been attempted.
C22_EveryEntryOnceInOrder ==
    /\ Len(log) <= Len(renames)
    /\ \A k \in 1..Len(log) :
          log[k].oldName = renames[k].oldName /\ log[k].newName = renames[k].newName
    /\ log # <<>> => (answer = Yes /\ pc \in {"rename", "exit"})
    /\ pc = "rename" => answer = Yes
    /\ (pc = "exit" /\ answer = Yes) => Len(log) = Len(renames)
    /\ pc \in {"rename", "exit"} => dir = Replay(DirectoryRead, Len(log))

\* The second of three renames has failed; the first and the third have
\* succeeded and main has ended.
C22_Witness ==
    /\ pc = "exit"
    /\ answer = Yes
    /\ Len(log) >= 3
    /\ log[1].ok
    /\ ~log[2].ok
    /\ log[3].ok
    /\ renames[1].newName \in dir
    /\ renames[2].oldName \in dir
    /\ renames[3].newName \in dir

\* C23: every run of ValidateFileNames on the list returns the same errors
\* as this run, printed alike, whichever entry of the map of a major number
\* that follows a gap the range statement yields first.
C23_Deterministic ==
    Validated =>
        \A rep \in RepresentativesFor(fileNames) :
            /\ ValidateFileNames(fileNames, rep).errors = errors
            /\ ErrorsString(ValidateFileNames(fileNames, rep).errors) = ErrorsString(errors)

\* The renames attempted so far have all succeeded.
AllApplied == \A k \in 1..Len(log) : log[k].ok

\* C24: while the plan is applied entry by entry, no rename goes onto a name
\* that is occupied at that moment, and when the whole plan is applied the
\* directory holds as many files as it did.
C24_NoOverwrite ==
    AllApplied =>
        /\ \A k \in 1..Len(log) : ~log[k].onto
        /\ (pc = "exit" /\ answer = Yes) =>
              Cardinality(dir) = Cardinality(DirectoryRead)

\* C25: with the validator's unused list, no two final descriptors have
\* the same (major, minor), and so no two parsed files the same final name,
\* also when names of the input collided.
C25_FinalPairsDistinct ==
    PlanReady =>
        \A i, j \in FileIdx :
            i # j =>
                /\ <<files[i].major, files[i].minor>> # <<files[j].major, files[j].minor>>
                /\ String(files[i]) # String(files[j])

\* Two names of the input collide on one (major, minor) in a group of three
\* files, and the group has moved into an unused number.
C25_Witness ==
    /\ PlanReady
    /\ \E i, j, k \in FileIdx :
          /\ i # j /\ j # k /\ i # k
          /\ Orig(i).major = Orig(j).major /\ Orig(i).minor = Orig(j).minor
          /\ Orig(i).major = Orig(k).major
          /\ Moved(i)
          /\ String(files[i]) # String(files[j])

\* C26: when ValidateFileNames returns no errors for the names (and so an
\* empty unused list), ComputeRenames returns no renames for them.
C26_ValidatorPlannerAgree ==
    (PlanReady /\ DOMAIN errors = {}) => (unused = <<>> /\ renames = <<>>)

====
